---- MODULE Spec2Model ----
(***************************************************************************)
(* The socket-role state machine of dtls/patch.py: the DTLS code paths     *)
(* that _SSLSocket_init installs on an ssl.SSLSocket (listen, accept,      *)
(* _real_connect, get_timeout, handle_timeout), over SSLConnection         *)
(* sessions.                                                               *)
(*                                                                         *)
(* Python's None is "None" for string-valued attributes and 0 for          *)
(* self._sslobj, whose other values are session identities 1, 2, ...       *)
(* (the index of the SSLConnection object in sessions).                    *)
(***************************************************************************)
EXTENDS Naturals, Sequences, FiniteSets, TLC

VARIABLES eps, sessions, ret

vars == <<eps, sessions, ret>>

\* Bounds of the model.
MaxEndpoints == 2
MaxSessions == 2

\* patch.py line 65.
PROTOCOL_SSLv23 == 2
\* The protocol constant imported from sslconnection (line 39).
PROTOCOL_DTLSv1 == 256
CERT_NONE == "CERT_NONE"
CERT_REQUIRED == "CERT_REQUIRED"
None == "None"

(***************************************************************************)
(* The sock argument of the constructor.  cls and type are what            *)
(* isinstance(sock, SSLConnection) and sock.type read; peer is what        *)
(* socket.getpeername answers for the handle; id is the identity of the    *)
(* SSLConnection when sock is one.                                         *)
(***************************************************************************)
NoSock == [cls |-> "NoneType", type |-> None, peer |-> None, id |-> 0]

StreamSock == [cls |-> "socket", type |-> "SOCK_STREAM", peer |-> "ENOTCONN", id |-> 0]

DgramSock(peer) == [cls |-> "socket", type |-> "SOCK_DGRAM", peer |-> peer, id |-> 0]

ConnSock(sid) == [cls |-> "SSLConnection", type |-> None, peer |-> None, id |-> sid]

\* What getpeername can answer on a datagram handle: a peer address, the
\* expected ENOTCONN, or another errno.
PeerProbes == {"addr", "ENOTCONN", "EBADF"}

\* The parameters of _SSLSocket_init after self, in the order of its signature.
ParamNames ==
    << "sock", "keyfile", "certfile", "server_side", "cert_reqs", "ssl_version",
       "ca_certs", "do_handshake_on_connect", "family", "type", "proto", "fileno",
       "suppress_ragged_eofs", "npn_protocols", "ciphers", "server_hostname",
       "_context" >>

\* The defaults of the signature.
DefaultArgs ==
    [ sock |-> NoSock, keyfile |-> None, certfile |-> None, server_side |-> FALSE,
      cert_reqs |-> CERT_NONE, ssl_version |-> PROTOCOL_SSLv23, ca_certs |-> None,
      do_handshake_on_connect |-> TRUE, family |-> "AF_INET", type |-> "SOCK_STREAM",
      proto |-> 0, fileno |-> None, suppress_ragged_eofs |-> TRUE,
      npn_protocols |-> None, ciphers |-> None, server_hostname |-> None,
      _context |-> None ]

\* Non-default values of the configuration arguments.
AltArgs ==
    [ keyfile |-> "key.pem", certfile |-> "cert.pem", server_side |-> TRUE,
      cert_reqs |-> CERT_REQUIRED, ssl_version |-> PROTOCOL_DTLSv1,
      ca_certs |-> "ca.pem", do_handshake_on_connect |-> FALSE,
      suppress_ragged_eofs |-> FALSE, ciphers |-> "ALL" ]

\* The keyword arguments a caller of the constructor passes: none, or every
\* configuration argument but keyfile (which then defaults to the certificate
\* file, line 132), each with its non-default value.
ConfigInputs ==
    { [n \in S |-> AltArgs[n]] : S \in { {}, DOMAIN AltArgs \ {"keyfile"} } }

\* Python's binding of a call with positional arguments pos and keyword
\* arguments kw (a record) to the parameters of the signature.
BindArgs(pos, kw) ==
    [ n \in DOMAIN DefaultArgs |->
        IF \E i \in 1..Len(pos) : ParamNames[i] = n
        THEN pos[CHOOSE i \in 1..Len(pos) : ParamNames[i] = n]
        ELSE IF n \in DOMAIN kw THEN kw[n] ELSE DefaultArgs[n] ]

\* The attributes of an ssl.SSLSocket this module reads or writes.  dtls is
\* FALSE for an object built by the original constructor (no DTLS methods
\* installed); closed is the terminal state after close().
NoEndpoint ==
    [ dtls |-> FALSE, closed |-> FALSE, _connected |-> FALSE, _sslobj |-> 0,
      keyfile |-> None, certfile |-> None, cert_reqs |-> CERT_NONE,
      ssl_version |-> PROTOCOL_SSLv23, ca_certs |-> None, ciphers |-> None,
      do_handshake_on_connect |-> TRUE, suppress_ragged_eofs |-> TRUE ]

\* SSLConnection(sock, keyfile, certfile, server_side, ...): the session
\* object, with the role it was created in and the call that created it
\* ("init": line 147, "listen": line 182, "connect": line 208, "accept": the
\* listening session's accept); released once its Endpoint is closed.
Session(server_side, via) ==
    [ server_side |-> server_side, via |-> via, released |-> FALSE ]

\* The result of the last call: the operation, the Endpoint it was called on,
\* how it ended, and what it did on the way (the session method it invoked
\* and on which session, the session it created, the peer association the
\* session handed out, the Endpoint it constructed).
NoRet ==
    [ op |-> "none", self |-> 0, return_errno |-> FALSE, outcome |-> "none",
      called |-> "none", on |-> 0, sessret |-> "none", created |-> 0,
      assoc |-> 0, new |-> 0, value |-> "none", sock |-> NoSock ]

\* _SSLSocket_init without the test of lines 139-140: every failure of
\* getpeername taken as not connected.
Mutant_init_swallows_errno(a, fresh) ==
    LET is_connection == a.sock.cls = "SSLConnection"
        is_datagram == ~is_connection /\ a.sock.type = "SOCK_DGRAM"
        keyfile == IF a.certfile # None /\ a.keyfile = None
                   THEN a.certfile ELSE a.keyfile
        attrs == [ NoEndpoint EXCEPT
                     !.dtls = TRUE, !.keyfile = keyfile, !.certfile = a.certfile,
                     !.cert_reqs = a.cert_reqs, !.ssl_version = a.ssl_version,
                     !.ca_certs = a.ca_certs, !.ciphers = a.ciphers,
                     !.do_handshake_on_connect = a.do_handshake_on_connect,
                     !.suppress_ragged_eofs = a.suppress_ragged_eofs ]
    IN  IF ~is_connection /\ ~is_datagram
        THEN \* Non-DTLS code path: _orig_SSLSocket_init
             [ outcome |-> "passthrough", ep |-> NoEndpoint, created |-> 0,
               sess |-> Session(FALSE, "none") ]
        ELSE IF is_datagram
        THEN IF a.sock.peer # "addr"
             THEN [ outcome |-> "return",
                    ep |-> [attrs EXCEPT !._connected = FALSE, !._sslobj = 0],
                    created |-> 0, sess |-> Session(FALSE, "none") ]
             ELSE IF a.sock.peer # "addr"
             THEN \* any other errno of getpeername: raise
                  [ outcome |-> "raise socket_error", ep |-> NoEndpoint,
                    created |-> 0, sess |-> Session(FALSE, "none") ]
             ELSE [ outcome |-> "return",
                    ep |-> [attrs EXCEPT !._connected = TRUE, !._sslobj = fresh],
                    created |-> fresh, sess |-> Session(a.server_side, "init") ]
        ELSE [ outcome |-> "return",
               ep |-> [attrs EXCEPT !._connected = TRUE, !._sslobj = a.sock.id],
               created |-> 0, sess |-> Session(FALSE, "none") ]

(***************************************************************************)
(* _SSLSocket_init (lines 92-175) on the bound arguments a.  fresh is the  *)
(* identity the SSLConnection of line 147 gets if it is created.  The      *)
(* result holds the outcome, the attributes of the constructed object and  *)
(* the session created (created = 0: none).                                *)
(***************************************************************************)
_SSLSocket_init(a, fresh) ==
    LET is_connection == a.sock.cls = "SSLConnection"
        is_datagram == ~is_connection /\ a.sock.type = "SOCK_DGRAM"
        keyfile == IF a.certfile # None /\ a.keyfile = None
                   THEN a.certfile ELSE a.keyfile
        attrs == [ NoEndpoint EXCEPT
                     !.dtls = TRUE, !.keyfile = keyfile, !.certfile = a.certfile,
                     !.cert_reqs = a.cert_reqs, !.ssl_version = a.ssl_version,
                     !.ca_certs = a.ca_certs, !.ciphers = a.ciphers,
                     !.do_handshake_on_connect = a.do_handshake_on_connect,
                     !.suppress_ragged_eofs = a.suppress_ragged_eofs ]
    IN  IF ~is_connection /\ ~is_datagram
        THEN \* Non-DTLS code path: _orig_SSLSocket_init
             [ outcome |-> "passthrough", ep |-> NoEndpoint, created |-> 0,
               sess |-> Session(FALSE, "none") ]
        ELSE IF is_datagram
        THEN IF a.sock.peer = "ENOTCONN"
             THEN [ outcome |-> "return",
                    ep |-> [attrs EXCEPT !._connected = FALSE, !._sslobj = 0],
                    created |-> 0, sess |-> Session(FALSE, "none") ]
             ELSE IF a.sock.peer # "addr"
             THEN \* any other errno of getpeername: raise
                  [ outcome |-> "raise socket_error", ep |-> NoEndpoint,
                    created |-> 0, sess |-> Session(FALSE, "none") ]
             ELSE [ outcome |-> "return",
                    ep |-> [attrs EXCEPT !._connected = TRUE, !._sslobj = fresh],
                    created |-> fresh, sess |-> Session(a.server_side, "init") ]
        ELSE [ outcome |-> "return",
               ep |-> [attrs EXCEPT !._connected = TRUE, !._sslobj = a.sock.id],
               created |-> 0, sess |-> Session(FALSE, "none") ]

\* _SSLSocket_listen without the check of lines 178-179.
Mutant_listen_unguarded(ep, fresh) ==
    IF ep._sslobj # 0
    THEN [ outcome |-> "return None", ep |-> ep, created |-> 0 ]
    ELSE [ outcome |-> "return None", ep |-> [ep EXCEPT !._sslobj = fresh],
           created |-> fresh ]

\* _SSLSocket_listen without the early return of lines 180-181.
Mutant_listen_recreates(ep, fresh) ==
    IF ep._connected
    THEN [ outcome |-> "raise ValueError", ep |-> ep, created |-> 0 ]
    ELSE [ outcome |-> "return None", ep |-> [ep EXCEPT !._sslobj = fresh],
           created |-> fresh ]

(***************************************************************************)
(* _SSLSocket_listen (lines 177-187) on the attributes ep.                 *)
(***************************************************************************)
_SSLSocket_listen(ep, fresh) ==
    IF ep._connected
    THEN [ outcome |-> "raise ValueError", ep |-> ep, created |-> 0 ]
    ELSE IF ep._sslobj # 0
    THEN [ outcome |-> "return None", ep |-> ep, created |-> 0 ]
    ELSE [ outcome |-> "return None", ep |-> [ep EXCEPT !._sslobj = fresh],
           created |-> fresh ]

\* _SSLSocket_accept returning None, instead of raising, prior to listen.
Mutant_accept_silent(ep, acc_ret) ==
    IF ep._connected
    THEN [ outcome |-> "raise ValueError", called |-> FALSE, args |-> << >> ]
    ELSE IF ep._sslobj = 0
    THEN [ outcome |-> "return None", called |-> FALSE, args |-> << >> ]
    ELSE IF acc_ret = NoSock
    THEN [ outcome |-> "return None", called |-> TRUE, args |-> << >> ]
    ELSE [ outcome |-> "return pair", called |-> TRUE,
           args |-> << acc_ret, ep.keyfile, ep.certfile, TRUE, ep.cert_reqs,
                       ep.ssl_version, ep.ca_certs, ep.do_handshake_on_connect,
                       ep.suppress_ragged_eofs, ep.ciphers >> ]

\* _SSLSocket_accept wrapping its own session instead of new_conn.
Mutant_accept_wraps_own(ep, acc_ret) ==
    IF ep._connected
    THEN [ outcome |-> "raise ValueError", called |-> FALSE, args |-> << >> ]
    ELSE IF ep._sslobj = 0
    THEN [ outcome |-> "raise ValueError", called |-> FALSE, args |-> << >> ]
    ELSE IF acc_ret = NoSock
    THEN [ outcome |-> "return None", called |-> TRUE, args |-> << >> ]
    ELSE [ outcome |-> "return pair", called |-> TRUE,
           args |-> << ConnSock(ep._sslobj), ep.keyfile, ep.certfile, TRUE,
                       ep.cert_reqs, ep.ssl_version, ep.ca_certs,
                       ep.do_handshake_on_connect, ep.suppress_ragged_eofs,
                       ep.ciphers >> ]

\* _SSLSocket_accept without the test of lines 195-196: unpacking None.
Mutant_accept_unpacks_none(ep, acc_ret) ==
    IF ep._connected
    THEN [ outcome |-> "raise ValueError", called |-> FALSE, args |-> << >> ]
    ELSE IF ep._sslobj = 0
    THEN [ outcome |-> "raise ValueError", called |-> FALSE, args |-> << >> ]
    ELSE IF acc_ret = NoSock
    THEN [ outcome |-> "raise TypeError", called |-> TRUE, args |-> << >> ]
    ELSE [ outcome |-> "return pair", called |-> TRUE,
           args |-> << acc_ret, ep.keyfile, ep.certfile, TRUE, ep.cert_reqs,
                       ep.ssl_version, ep.ca_certs, ep.do_handshake_on_connect,
                       ep.suppress_ragged_eofs, ep.ciphers >> ]

(***************************************************************************)
(* _SSLSocket_accept (lines 189-203) on the attributes ep.  acc_ret is     *)
(* what self._sslobj.accept() returns: NoSock for None, else the new       *)
(* SSLConnection (the peer address is not modelled).  args are the         *)
(* positional arguments of the ssl.SSLSocket(...) call of line 198.        *)
(***************************************************************************)
_SSLSocket_accept(ep, acc_ret) ==
    IF ep._connected
    THEN [ outcome |-> "raise ValueError", called |-> FALSE, args |-> << >> ]
    ELSE IF ep._sslobj = 0
    THEN [ outcome |-> "raise ValueError", called |-> FALSE, args |-> << >> ]
    ELSE IF acc_ret = NoSock
    THEN [ outcome |-> "return None", called |-> TRUE, args |-> << >> ]
    ELSE [ outcome |-> "return pair", called |-> TRUE,
           args |-> << acc_ret, ep.keyfile, ep.certfile, TRUE, ep.cert_reqs,
                       ep.ssl_version, ep.ca_certs, ep.do_handshake_on_connect,
                       ep.suppress_ragged_eofs, ep.ciphers >> ]

\* _SSLSocket_real_connect without the check of lines 206-207.
Mutant_connect_unguarded(ep, return_errno, fresh, connect_ok) ==
    LET e1 == [ep EXCEPT !._sslobj = fresh]
    IN  IF ~connect_ok
        THEN IF return_errno
             THEN [ outcome |-> "return errno", ep |-> e1, created |-> fresh ]
             ELSE [ outcome |-> "raise socket_error",
                    ep |-> [e1 EXCEPT !._sslobj = 0], created |-> fresh ]
        ELSE [ outcome |-> "return 0", ep |-> [e1 EXCEPT !._connected = TRUE],
               created |-> fresh ]

\* _SSLSocket_real_connect setting _connected before the try of line 214.
Mutant_connect_flag_early(ep, return_errno, fresh, connect_ok) ==
    IF ep._connected
    THEN [ outcome |-> "raise ValueError", ep |-> ep, created |-> 0 ]
    ELSE LET e1 == [ep EXCEPT !._sslobj = fresh, !._connected = TRUE]
         IN  IF ~connect_ok
             THEN IF return_errno
                  THEN [ outcome |-> "return errno", ep |-> e1, created |-> fresh ]
                  ELSE [ outcome |-> "raise socket_error",
                         ep |-> [e1 EXCEPT !._sslobj = 0], created |-> fresh ]
             ELSE [ outcome |-> "return 0", ep |-> e1, created |-> fresh ]

\* _SSLSocket_real_connect re-raising without line 220.
Mutant_connect_keeps_session(ep, return_errno, fresh, connect_ok) ==
    IF ep._connected
    THEN [ outcome |-> "raise ValueError", ep |-> ep, created |-> 0 ]
    ELSE LET e1 == [ep EXCEPT !._sslobj = fresh]
         IN  IF ~connect_ok
             THEN IF return_errno
                  THEN [ outcome |-> "return errno", ep |-> e1, created |-> fresh ]
                  ELSE [ outcome |-> "raise socket_error", ep |-> e1,
                         created |-> fresh ]
             ELSE [ outcome |-> "return 0", ep |-> [e1 EXCEPT !._connected = TRUE],
                    created |-> fresh ]

(***************************************************************************)
(* _SSLSocket_real_connect (lines 205-223) on the attributes ep.  fresh is *)
(* the identity of the SSLConnection of line 208; connect_ok says whether  *)
(* self._sslobj.connect(addr) returns (TRUE) or raises socket_error.       *)
(***************************************************************************)
_SSLSocket_real_connect(ep, return_errno, fresh, connect_ok) ==
    IF ep._connected
    THEN [ outcome |-> "raise ValueError", ep |-> ep, created |-> 0 ]
    ELSE LET e1 == [ep EXCEPT !._sslobj = fresh]
         IN  IF ~connect_ok
             THEN IF return_errno
                  THEN [ outcome |-> "return errno", ep |-> e1, created |-> fresh ]
                  ELSE [ outcome |-> "raise socket_error",
                         ep |-> [e1 EXCEPT !._sslobj = 0], created |-> fresh ]
             ELSE [ outcome |-> "return 0", ep |-> [e1 EXCEPT !._connected = TRUE],
                    created |-> fresh ]

\* _SSLSocket_get_timeout without the return of line 230.
Mutant_get_timeout_drops_value(ep, sessret) ==
    IF ep._sslobj = 0
    THEN [ outcome |-> "raise AttributeError", called |-> FALSE, value |-> "none" ]
    ELSE [ outcome |-> "return", called |-> TRUE, value |-> "None" ]

(***************************************************************************)
(* _SSLSocket_get_timeout and _SSLSocket_handle_timeout (lines 229-233):   *)
(* self._sslobj.<method>(), an AttributeError on None.  sessret is what    *)
(* the session's method returns.                                           *)
(***************************************************************************)
_SSLSocket_get_timeout(ep, sessret) ==
    IF ep._sslobj = 0
    THEN [ outcome |-> "raise AttributeError", called |-> FALSE, value |-> "none" ]
    ELSE [ outcome |-> "return", called |-> TRUE, value |-> sessret ]

_SSLSocket_handle_timeout(ep, sessret) ==
    IF ep._sslobj = 0
    THEN [ outcome |-> "raise AttributeError", called |-> FALSE, value |-> "none" ]
    ELSE [ outcome |-> "return", called |-> TRUE, value |-> sessret ]


Init ==
    /\ eps = << >>
    /\ sessions = << >>
    /\ ret = NoRet

\* The session's accept(): None, or a peer association that is a new
\* SSLConnection (identity fresh) handed over to the caller.
SSLConnection_accept(ready, fresh) == IF ready THEN ConnSock(fresh) ELSE NoSock

\* The Endpoints whose DTLS operations a caller can invoke.
Live(i) == i \in 1..Len(eps) /\ eps[i].dtls /\ ~eps[i].closed

\* The session store after a call that created the session objects new.
Allocate(new) == sessions \o new

(***************************************************************************)
(* ssl.SSLSocket(sock, **kw) by a caller, which line 61 makes a call of    *)
(* _SSLSocket_init, on no socket, a stream socket or a datagram socket.    *)
(* (An SSLConnection is passed by accept, line 198.)  eps holds the        *)
(* Endpoints: an object of the non-DTLS path gets no Endpoint state.       *)
(***************************************************************************)
Construct ==
    /\ Len(eps) < MaxEndpoints
    /\ \E kw \in ConfigInputs,
          sock \in {NoSock, StreamSock} \cup {DgramSock(p) : p \in PeerProbes} :
        LET c == _SSLSocket_init(BindArgs(<< sock >>, kw), Len(sessions) + 1)
            made == IF c.created # 0 THEN << c.sess >> ELSE << >>
        IN  /\ Len(sessions) + Len(made) <= MaxSessions
            /\ sessions' = Allocate(made)
            /\ eps' = IF c.outcome = "return" THEN Append(eps, c.ep) ELSE eps
            /\ ret' = [ NoRet EXCEPT
                          !.op = "init", !.outcome = c.outcome, !.sock = sock,
                          !.created = c.created,
                          !.new = IF c.outcome = "return" THEN Len(eps) + 1 ELSE 0 ]

listen(self) ==
    /\ Live(self)
    /\ LET r == _SSLSocket_listen(eps[self], Len(sessions) + 1)
       IN  /\ r.created # 0 => Len(sessions) < MaxSessions
           /\ sessions' = IF r.created # 0
                          THEN Allocate(<< Session(TRUE, "listen") >>) ELSE sessions
           /\ eps' = [eps EXCEPT ![self] = r.ep]
           /\ ret' = [ NoRet EXCEPT
                         !.op = "listen", !.self = self, !.outcome = r.outcome,
                         !.created = r.created ]

\* accept marking the listening Endpoint itself connected once it has handed
\* out an Endpoint.
Mutant_accept_connects_self(self) ==
    /\ Live(self)
    /\ \E ready \in BOOLEAN :
        LET fresh == Len(sessions) + 1
            r == _SSLSocket_accept(eps[self], SSLConnection_accept(ready, fresh))
            handed == IF r.called /\ ready THEN << Session(TRUE, "accept") >> ELSE << >>
            built == r.outcome = "return pair"
            c == _SSLSocket_init(BindArgs(r.args, << >>), fresh + 1)
            made == IF built /\ c.created # 0 THEN << c.sess >> ELSE << >>
            appended == built /\ c.outcome = "return"
        IN  /\ Len(sessions) + Len(handed) + Len(made) <= MaxSessions
            /\ appended => Len(eps) < MaxEndpoints
            /\ sessions' = Allocate(handed \o made)
            /\ eps' = IF appended
                      THEN Append([eps EXCEPT ![self]._connected = TRUE], c.ep)
                      ELSE eps
            /\ ret' = [ NoRet EXCEPT
                          !.op = "accept", !.self = self, !.outcome = r.outcome,
                          !.called = IF r.called THEN "accept" ELSE "none",
                          !.on = IF r.called THEN eps[self]._sslobj ELSE 0,
                          !.sessret = IF r.called
                                      THEN (IF ready THEN "pair" ELSE "None")
                                      ELSE "none",
                          !.assoc = IF r.called /\ ready THEN fresh ELSE 0,
                          !.new = IF appended THEN Len(eps) + 1 ELSE 0 ]

(***************************************************************************)
(* accept: ready says whether the session's accept has a peer association  *)
(* to hand out; the association is a new SSLConnection of the session's    *)
(* making.                                                                 *)
(***************************************************************************)
accept(self) ==
    /\ Live(self)
    /\ \E ready \in BOOLEAN :
        LET fresh == Len(sessions) + 1
            r == _SSLSocket_accept(eps[self], SSLConnection_accept(ready, fresh))
            handed == IF r.called /\ ready THEN << Session(TRUE, "accept") >> ELSE << >>
            built == r.outcome = "return pair"
            c == _SSLSocket_init(BindArgs(r.args, << >>), fresh + 1)
            made == IF built /\ c.created # 0 THEN << c.sess >> ELSE << >>
            appended == built /\ c.outcome = "return"
        IN  /\ Len(sessions) + Len(handed) + Len(made) <= MaxSessions
            /\ appended => Len(eps) < MaxEndpoints
            /\ sessions' = Allocate(handed \o made)
            /\ eps' = IF appended THEN Append(eps, c.ep) ELSE eps
            /\ ret' = [ NoRet EXCEPT
                          !.op = "accept", !.self = self, !.outcome = r.outcome,
                          !.called = IF r.called THEN "accept" ELSE "none",
                          !.on = IF r.called THEN eps[self]._sslobj ELSE 0,
                          !.sessret = IF r.called
                                      THEN (IF ready THEN "pair" ELSE "None")
                                      ELSE "none",
                          !.assoc = IF r.called /\ ready THEN fresh ELSE 0,
                          !.new = IF appended THEN Len(eps) + 1 ELSE 0 ]

connect(self) ==
    /\ Live(self)
    /\ \E return_errno \in BOOLEAN, connect_ok \in BOOLEAN :
        LET r == _SSLSocket_real_connect(eps[self], return_errno,
                                         Len(sessions) + 1, connect_ok)
        IN  /\ r.created # 0 => Len(sessions) < MaxSessions
            /\ sessions' = IF r.created # 0
                           THEN Allocate(<< Session(FALSE, "connect") >>) ELSE sessions
            /\ eps' = [eps EXCEPT ![self] = r.ep]
            /\ ret' = [ NoRet EXCEPT
                          !.op = "connect", !.self = self,
                          !.return_errno = return_errno, !.outcome = r.outcome,
                          !.created = r.created,
                          !.called = IF r.created # 0 THEN "connect" ELSE "none",
                          !.on = r.created,
                          !.sessret = IF r.created = 0 THEN "none"
                                      ELSE IF connect_ok THEN "None"
                                      ELSE "socket_error" ]

\* The session's get_timeout answers a duration or None.
get_timeout(self) ==
    /\ Live(self)
    /\ \E t \in {"1.0"} :
        LET r == _SSLSocket_get_timeout(eps[self], t)
        IN  /\ UNCHANGED << eps, sessions >>
            /\ ret' = [ NoRet EXCEPT
                          !.op = "get_timeout", !.self = self, !.outcome = r.outcome,
                          !.called = IF r.called THEN "get_timeout" ELSE "none",
                          !.on = IF r.called THEN eps[self]._sslobj ELSE 0,
                          !.sessret = IF r.called THEN t ELSE "none",
                          !.value = r.value ]

\* The session's handle_timeout answers whether a timeout was handled.
handle_timeout(self) ==
    /\ Live(self)
    /\ \E t \in {"True"} :
        LET r == _SSLSocket_handle_timeout(eps[self], t)
        IN  /\ UNCHANGED << eps, sessions >>
            /\ ret' = [ NoRet EXCEPT
                          !.op = "handle_timeout", !.self = self,
                          !.outcome = r.outcome,
                          !.called = IF r.called THEN "handle_timeout" ELSE "none",
                          !.on = IF r.called THEN eps[self]._sslobj ELSE 0,
                          !.sessret = IF r.called THEN t ELSE "none",
                          !.value = r.value ]

(***************************************************************************)
(* close(): releases the session (if any) and the raw handle; idempotent.  *)
(***************************************************************************)
close(self) ==
    /\ self \in 1..Len(eps)
    /\ eps[self].dtls
    /\ LET sid == eps[self]._sslobj
       IN  /\ sessions' = IF sid # 0
                          THEN [sessions EXCEPT ![sid].released = TRUE] ELSE sessions
           /\ eps' = [eps EXCEPT ![self].closed = TRUE, ![self]._sslobj = 0]
           /\ ret' = [ NoRet EXCEPT
                         !.op = "close", !.self = self, !.outcome = "return None" ]

Next ==
    \/ Construct
    \/ \E self \in 1..MaxEndpoints : listen(self)
    \/ \E self \in 1..MaxEndpoints : accept(self)
    \/ \E self \in 1..MaxEndpoints : connect(self)
    \/ \E self \in 1..MaxEndpoints : get_timeout(self)
    \/ \E self \in 1..MaxEndpoints : handle_timeout(self)
    \/ \E self \in 1..MaxEndpoints : close(self)

Spec == Init /\ [][Next]_vars

\* The behaviours in which no Endpoint is closed: construction followed by
\* listen, accept, connect, get_timeout and handle_timeout calls.
NextOps ==
    \/ Construct
    \/ \E self \in 1..MaxEndpoints : listen(self)
    \/ \E self \in 1..MaxEndpoints : accept(self)
    \/ \E self \in 1..MaxEndpoints : connect(self)
    \/ \E self \in 1..MaxEndpoints : get_timeout(self)
    \/ \E self \in 1..MaxEndpoints : handle_timeout(self)

SpecOps == Init /\ [][NextOps]_vars

(***************************************************************************)
(* The roles of an Endpoint.                                               *)
(***************************************************************************)
Connected(i) == eps[i]._connected

Idle(i) == ~eps[i]._connected /\ eps[i]._sslobj = 0

\* Not connected, holding the session a listen call created.
Listening(i) ==
    /\ ~eps[i]._connected
    /\ eps[i]._sslobj # 0
    /\ sessions[eps[i]._sslobj].via = "listen"

\* Connected by a successful connect call.
ConnectedByConnect(i) ==
    /\ eps[i]._connected
    /\ eps[i]._sslobj # 0
    /\ sessions[eps[i]._sslobj].via = "connect"

\* C1: a connect call on a Connected Endpoint raises the precondition fault
\* (ValueError) in both reporting modes, never returns a code or 0, and
\* leaves the Endpoint, and every session, as it was.
C1_SecondConnectFaults ==
    [][ (ret'.op = "connect" /\ Connected(ret'.self))
          => /\ ret'.outcome = "raise ValueError"
             /\ eps' = eps
             /\ sessions' = sessions ]_vars

C1_Witness ==
    /\ ret.op = "connect"
    /\ ret.return_errno
    /\ ret.outcome = "raise ValueError"
    /\ ConnectedByConnect(ret.self)

\* C2: accept on a not-connected Endpoint without a session raises the
\* precondition fault, does not call the session's accept, constructs no
\* Endpoint and changes nothing.
C2_AcceptBeforeListenFaults ==
    [][ (ret'.op = "accept" /\ Idle(ret'.self))
          => /\ ret'.outcome = "raise ValueError"
             /\ ret'.called = "none"
             /\ ret'.new = 0
             /\ eps' = eps
             /\ sessions' = sessions ]_vars

C2_Witness ==
    /\ ret.op = "accept"
    /\ ret.outcome = "raise ValueError"
    /\ Idle(ret.self)

\* C3: a listen call directly after the listen call that created the
\* session of an Idle Endpoint raises nothing, creates no session and
\* leaves the Endpoint and the sessions as the first call left them.
C3_ListenIdempotent ==
    [][ (ret.op = "listen" /\ ret.created # 0
           /\ ret'.op = "listen" /\ ret'.self = ret.self)
          => /\ ret'.outcome = "return None"
             /\ ret'.created = 0
             /\ eps' = eps
             /\ sessions' = sessions ]_vars

C3_Witness ==
    /\ ret.op = "listen"
    /\ ret.outcome = "return None"
    /\ ret.created = 0
    /\ Listening(ret.self)

\* C4 (as claimed): after a connect whose transport attempt failed under
\* return_errno, the call has returned the error code and the Endpoint is
\* not Connected and holds no session.
C4_ErrnoLeavesNoSession ==
    (ret.op = "connect" /\ ret.sessret = "socket_error" /\ ret.return_errno)
      => /\ ret.outcome = "return errno"
         /\ ~eps[ret.self]._connected
         /\ eps[ret.self]._sslobj = 0

\* C5: after a connect whose transport attempt failed without return_errno,
\* the call has raised the failure and the Endpoint is not Connected and
\* its session reference is cleared.
C5_FaultClearsSession ==
    (ret.op = "connect" /\ ret.sessret = "socket_error" /\ ~ret.return_errno)
      => /\ ret.outcome = "raise socket_error"
         /\ ~eps[ret.self]._connected
         /\ eps[ret.self]._sslobj = 0

C5_Witness ==
    /\ ret.op = "connect"
    /\ ret.sessret = "socket_error"
    /\ ~ret.return_errno
    /\ ret.outcome = "raise socket_error"
    /\ ret.created # 0
    /\ Idle(ret.self)

\* The configuration snapshot of an Endpoint.
ConfigFields ==
    { "keyfile", "certfile", "cert_reqs", "ssl_version", "ca_certs",
      "do_handshake_on_connect", "suppress_ragged_eofs", "ciphers" }

\* C6: when connect has returned 0 the Endpoint is Connected and holds the
\* client-role session that call created; when accept has returned a pair
\* the new Endpoint is Connected and holds exactly the association the
\* listening session handed out; no open Endpoint is Connected without a
\* session.
C6_RoundTripConnected ==
    /\ (ret.op = "connect" /\ ret.outcome = "return 0")
         => /\ eps[ret.self]._connected
            /\ ret.created # 0
            /\ eps[ret.self]._sslobj = ret.created
            /\ ~sessions[ret.created].server_side
    /\ (ret.op = "accept" /\ ret.outcome = "return pair")
         => /\ ret.new # 0
            /\ ret.assoc # 0
            /\ eps[ret.new]._connected
            /\ eps[ret.new]._sslobj = ret.assoc
    /\ \A i \in 1..Len(eps) : (Live(i) /\ eps[i]._connected) => eps[i]._sslobj # 0

C6_Witness ==
    /\ ret.op = "accept"
    /\ ret.outcome = "return pair"
    /\ Listening(ret.self)
    /\ eps[ret.new]._connected
    /\ sessions[eps[ret.new]._sslobj].via = "accept"

\* No two Endpoints hold the same session.
NoSharedSession ==
    \A i, j \in 1..Len(eps) :
        (i # j /\ eps[i]._sslobj # 0) => eps[i]._sslobj # eps[j]._sslobj

\* A close step changes no other Endpoint and no other Endpoint's session.
CloseFrame ==
    ret'.op = "close"
      => \A j \in (1..Len(eps)) \ {ret'.self} :
            /\ eps'[j] = eps[j]
            /\ eps[j]._sslobj # 0
                 => sessions'[eps[j]._sslobj] = sessions[eps[j]._sslobj]

C8_AcceptCopiesConfig ==
    (ret.op = "accept" /\ ret.outcome = "return pair" /\ ret.new # 0)
      => \A f \in ConfigFields : eps[ret.new][f] = eps[ret.self][f]

\* C9: an accept call on a Listening Endpoint whose session has no ready
\* association returns None: no fault, no new Endpoint, nothing changed,
\* so the call can be repeated with the same outcome.
C9_AcceptNotReadyIsEmpty ==
    [][ (ret'.op = "accept" /\ Listening(ret'.self) /\ ret'.sessret = "None")
          => /\ ret'.outcome = "return None"
             /\ ret'.called = "accept"
             /\ ret'.new = 0
             /\ eps' = eps
             /\ sessions' = sessions ]_vars

C9_Witness ==
    /\ ret.op = "accept"
    /\ ret.sessret = "None"
    /\ ret.outcome = "return None"
    /\ Listening(ret.self)

\* C10 (as claimed): a connect call on a Listening Endpoint is rejected and
\* leaves the Endpoint Listening with its listening session.
C10_ConnectOnlyFromIdle ==
    [][ (ret'.op = "connect" /\ Listening(ret'.self))
          => /\ ret'.outcome = "raise ValueError"
             /\ eps' = eps ]_vars

\* The operations of an Endpoint other than close.
EndpointOps == {"listen", "accept", "connect", "get_timeout", "handle_timeout"}

\* C11 (as claimed): an accept call is delegated to the Endpoint's session
\* only if that session is the server-role session a listen call on the
\* Endpoint created; in every other state it raises the precondition fault
\* without calling the session.
C11_AcceptOnlyAfterListen ==
    [][ ret'.op = "accept"
          => IF ret'.called = "accept"
             THEN /\ Listening(ret'.self)
                  /\ sessions[eps[ret'.self]._sslobj].server_side
                  /\ ret'.on = eps[ret'.self]._sslobj
             ELSE ret'.outcome = "raise ValueError" ]_vars

\* C12 (as claimed): an Endpoint is in exactly one of Idle (not connected,
\* no session), Listening (not connected, session present) and Connected,
\* and no listen, accept, connect, get_timeout or handle_timeout call takes
\* an Endpoint that is Listening or Connected back to Idle.
C12_NeverBackToIdle ==
    [][ ret'.op \in EndpointOps
          => \A i \in 1..Len(eps) :
                /\ Cardinality({ r \in {"Idle", "Listening", "Connected"} :
                                   \/ r = "Idle" /\ Idle(i)
                                   \/ r = "Listening"
                                        /\ ~eps[i]._connected /\ eps[i]._sslobj # 0
                                   \/ r = "Connected" /\ Connected(i) }) = 1
                /\ ~Idle(i) => ~(~eps'[i]._connected /\ eps'[i]._sslobj = 0) ]_vars

\* C13: no step of listen, accept, connect, get_timeout or handle_timeout
\* (on any Endpoint, with any outcome) replaces or clears the session of an
\* Endpoint that is Connected, or takes it out of Connected.
C13_ConnectedSessionKept ==
    [][ ret'.op \in EndpointOps
          => \A i \in 1..Len(eps) :
                (Live(i) /\ Connected(i))
                  => /\ eps'[i]._connected
                     /\ eps'[i]._sslobj = eps[i]._sslobj
                     /\ sessions'[eps[i]._sslobj] = sessions[eps[i]._sslobj] ]_vars

C13_Witness ==
    /\ ret.op = "get_timeout"
    /\ ret.outcome = "return"
    /\ ConnectedByConnect(ret.self)
    /\ ret.on = eps[ret.self]._sslobj

\* Connected from construction over a datagram handle that has a peer.
ConnectedByInit(i) ==
    /\ eps[i]._connected
    /\ eps[i]._sslobj # 0
    /\ sessions[eps[i]._sslobj].via = "init"

\* C14: listen and accept on a Connected Endpoint, however it became
\* Connected, raise the precondition fault, call no session method, create
\* no session and no Endpoint, and change nothing.
C14_ListenAcceptOnConnectedFault ==
    [][ (ret'.op \in {"listen", "accept"} /\ Connected(ret'.self))
          => /\ ret'.outcome = "raise ValueError"
             /\ ret'.called = "none"
             /\ ret'.created = 0
             /\ ret'.new = 0
             /\ eps' = eps
             /\ sessions' = sessions ]_vars

C14_Witness ==
    /\ ret.op = "accept"
    /\ ret.outcome = "raise ValueError"
    /\ ConnectedByInit(ret.self)

\* C15: an accept step, whatever its outcome, leaves every existing
\* Endpoint, the one it is called on included, with the same role, session
\* and configuration; it can only append a new Endpoint.
C15_AcceptKeepsListener ==
    [][ ret'.op = "accept"
          => /\ \A i \in 1..Len(eps) : eps'[i] = eps[i]
             /\ \A s \in 1..Len(sessions) : sessions'[s] = sessions[s] ]_vars

C15_Witness ==
    /\ ret.op = "accept"
    /\ ret.outcome = "return pair"
    /\ ret.new = Len(eps)
    /\ Listening(ret.self)
    /\ eps[ret.self]._sslobj = ret.on

\* C16 (as claimed): a connect step whose transport attempt fails, in
\* either reporting mode, leaves the Endpoint as it was before the call,
\* and a connect call after such a failure is not rejected as a precondition
\* violation and makes the Endpoint Connected if its transport attempt
\* succeeds.
C16_FailedConnectRolledBack ==
    [][ ret'.op = "connect"
          => /\ ret'.sessret = "socket_error" => eps' = eps
             /\ (ret.op = "connect" /\ ret.self = ret'.self
                   /\ ret.sessret = "socket_error")
                  => /\ ret'.outcome # "raise ValueError"
                     /\ ret'.sessret = "None" => eps'[ret'.self]._connected ]_vars

\* C17: construction has one outcome per input.  A datagram handle whose
\* getpeername fails with ENOTCONN gives an Idle Endpoint; one whose
\* getpeername succeeds gives a Connected Endpoint with a new session; one
\* whose getpeername fails otherwise raises and gives no Endpoint; any other
\* socket goes to the original constructor and gets no Endpoint state; and
\* the SSLConnection accept passes gives a Connected Endpoint holding it.
C17_ConstructionClassifies ==
    [][ /\ ret'.op = "init"
             => LET k == ret'.sock
                    n == Len(eps) + 1
                IN  IF k.cls = "socket" /\ k.type = "SOCK_DGRAM"
                    THEN IF k.peer = "ENOTCONN"
                         THEN /\ ret'.outcome = "return"
                              /\ ret'.new = n
                              /\ Len(eps') = n
                              /\ eps'[n].dtls
                              /\ ~eps'[n]._connected
                              /\ eps'[n]._sslobj = 0
                              /\ sessions' = sessions
                         ELSE IF k.peer = "addr"
                         THEN /\ ret'.outcome = "return"
                              /\ ret'.new = n
                              /\ Len(eps') = n
                              /\ eps'[n].dtls
                              /\ eps'[n]._connected
                              /\ eps'[n]._sslobj = Len(sessions')
                              /\ Len(sessions') = Len(sessions) + 1
                         ELSE /\ ret'.outcome = "raise socket_error"
                              /\ ret'.new = 0
                              /\ eps' = eps
                              /\ sessions' = sessions
                    ELSE /\ ret'.outcome = "passthrough"
                         /\ ret'.new = 0
                         /\ eps' = eps
                         /\ sessions' = sessions
        /\ (ret'.op = "accept" /\ ret'.outcome = "return pair")
             => /\ Len(eps') = Len(eps) + 1
                /\ eps'[Len(eps')].dtls
                /\ eps'[Len(eps')]._connected
                /\ eps'[Len(eps')]._sslobj = ret'.assoc ]_vars

C17_Witness ==
    /\ ret.op = "init"
    /\ ret.sock.type = "SOCK_DGRAM"
    /\ ret.sock.peer = "EBADF"
    /\ ret.outcome = "raise socket_error"
    /\ \E i \in 1..Len(eps) : Live(i) /\ Idle(i)

\* The last call constructed an Endpoint over a datagram handle whose
\* getpeername succeeded, and the step is the next listen or connect on it.
FirstRoleCallAfterProbeSuccess ==
    /\ ret.op = "init"
    /\ ret.sock.type = "SOCK_DGRAM"
    /\ ret.sock.peer = "addr"
    /\ ret.outcome = "return"
    /\ ret'.op \in {"listen", "connect"}
    /\ ret'.self = ret.new

\* C18 (as claimed): the next listen or connect call on an Endpoint
\* constructed over a datagram handle whose probe succeeded is accepted.
C18_RoleDeferred ==
    [][ FirstRoleCallAfterProbeSuccess => ret'.outcome # "raise ValueError" ]_vars

\* C18 (amended): construction over a datagram handle whose probe succeeds
\* fixes the role: the Endpoint is Connected with the session construction
\* created, and the next listen or connect call on it raises the
\* precondition fault and changes nothing.
C18_RoleFixedByConstruction ==
    [][ FirstRoleCallAfterProbeSuccess
          => /\ ConnectedByInit(ret.new)
             /\ eps[ret.new]._sslobj = ret.created
             /\ ret'.outcome = "raise ValueError"
             /\ ret'.created = 0
             /\ eps' = eps
             /\ sessions' = sessions ]_vars

C18_Witness ==
    /\ ret.op = "listen"
    /\ ret.outcome = "raise ValueError"
    /\ ConnectedByInit(ret.self)

\* C19: a get_timeout or handle_timeout step changes no Endpoint and no
\* session; on an Endpoint that holds a session it calls that session's
\* method of the same name and returns exactly what the method returned,
\* and on an Endpoint without a session it fails with a fault (the
\* AttributeError of None) without calling anything.
C19_TimeoutsPassThrough ==
    [][ ret'.op \in {"get_timeout", "handle_timeout"}
          => /\ eps' = eps
             /\ sessions' = sessions
             /\ IF eps[ret'.self]._sslobj # 0
                THEN /\ ret'.outcome = "return"
                     /\ ret'.called = ret'.op
                     /\ ret'.on = eps[ret'.self]._sslobj
                     /\ ret'.sessret # "none"
                     /\ ret'.value = ret'.sessret
                ELSE /\ ret'.outcome = "raise AttributeError"
                     /\ ret'.called = "none" ]_vars

C19_Witness ==
    /\ ret.op = "get_timeout"
    /\ ret.outcome = "return"
    /\ ret.value = "1.0"
    /\ Listening(ret.self)

\* C20: with no Endpoint closed, every Endpoint whose _connected flag is
\* set holds a session.
C20_ConnectedHoldsSession ==
    \A i \in 1..Len(eps) : eps[i]._connected => eps[i]._sslobj # 0

C20_Witness ==
    /\ ret.op = "connect"
    /\ ret.outcome = "return 0"
    /\ ~ret.return_errno
    /\ ConnectedByConnect(ret.self)
    /\ eps[ret.self]._sslobj = ret.created

====
